---- MODULE Spec2Model ----
(***************************************************************************)
(* Model of hooks/tk-3dsmax_scene_operations.py: the breakdown hook        *)
(* BreakdownSceneOperations for 3ds Max.                                   *)
(*                                                                         *)
(* The host (pymxs runtime) is modelled as three ordered collections of    *)
(* objects and a material graph.  Strings that the code transforms (file   *)
(* paths) are sequences of one-character strings; names are TLA+ strings.  *)
(* os.path is ntpath (3ds Max runs on Windows).  A host call that raises   *)
(* is an input of the action that models the handler.                      *)
(***************************************************************************)
EXTENDS Integers, Sequences, FiniteSets, TLC

VARIABLES
    xrefObjects,            \* host: XRef objects, in the order of getMAXFileObjectNames
    xrefScenes,             \* host: XRef scenes, in the order of getMAXFileObjectNames
    bitmaps,                \* host: BitmapTexture instances, in the order of getClassInstances
    sceneMaterials,         \* host: rt.sceneMaterials, a sequence of material ids
    materials,              \* host: material id -> material object
    scene_change_callback,  \* self._scene_change_callback
    hostCallbacks,          \* callbacks the hook has handed to the host's notification system
    pendingChange,          \* a scene change happened while a callback was stored
    cbExecuted,             \* the stored callback has been executed
    last                    \* the last hook call: its input, host calls, log and return value

vars == <<xrefObjects, xrefScenes, bitmaps, sceneMaterials, materials,
          scene_change_callback, hostCallbacks, pendingChange, cbExecuted, last>>

sceneVars == <<xrefObjects, xrefScenes, bitmaps, sceneMaterials, materials>>
cbVars == <<scene_change_callback, hostCallbacks, pendingChange, cbExecuted>>

(***************************************************************************)
(* Bounds of the model.                                                    *)
(***************************************************************************)
MaxObjects == 2       \* host objects in a scene, over the three kinds
MaxMaterials == 3     \* materials of the material graph

(***************************************************************************)
(* Python values.                                                          *)
(***************************************************************************)
None == "None"
Truthy(s) == s # <<>>                    \* truth value of a str held as characters
Str(v) == v                              \* str() of a value that is a str

(***************************************************************************)
(* Paths: str.replace and os.path (ntpath).                                *)
(***************************************************************************)
Sep == "\\"
AltSep == "/"

\* str.replace(old, new) for one-character old and new
Replace(s, old, new) == [i \in 1..Len(s) |-> IF s[i] = old THEN new ELSE s[i]]

RECURSIVE StripLeadingSeps(_)
StripLeadingSeps(s) ==
    IF s # <<>> /\ s[1] = Sep THEN StripLeadingSeps(Tail(s)) ELSE s

\* the components of s joined by one separator: empty components are dropped
RECURSIVE JoinComponents(_)
JoinComponents(s) ==
    IF s = <<>> THEN <<>>
    ELSE IF s[1] = Sep
         THEN IF StripLeadingSeps(s) = <<>> THEN <<>>
              ELSE <<Sep>> \o JoinComponents(StripLeadingSeps(s))
         ELSE <<s[1]>> \o JoinComponents(Tail(s))

\* ntpath.normpath on paths without a drive, a UNC prefix or dot components
NormPath(p) ==
    LET q == Replace(p, AltSep, Sep)
        root == IF q # <<>> /\ q[1] = Sep THEN <<Sep>> ELSE <<>>
        r == root \o JoinComponents(StripLeadingSeps(q))
    IN  IF r = <<>> THEN <<".">> ELSE r

\* the files on disk, each by its normalized path
Disk == { <<"a">>, <<"d", Sep, "b">> }

\* os.path.exists: Windows resolves both separators to the same file
Exists(p) == p # <<>> /\ NormPath(p) \in Disk

(***************************************************************************)
(* Host objects.                                                           *)
(***************************************************************************)
XrefNames == {"A", "B"}
BitmapNames == {"T", ""}
SlotNames == {"diffuseMap", "bumpMap", "specularMap", "opacityMap", "reflectionMap"}

\* filenames a host object can have when the hook is loaded
InitFilenames == { <<>>, <<"a">>, <<"x">> }

\* paths the toolkit hands to update
NewPaths == { <<"d", Sep, "b">>, <<"x">> }

XrefValues ==
    { [name |-> n, hasFilename |-> TRUE, filename |-> f] : n \in XrefNames, f \in InitFilenames }
    \cup { [name |-> n, hasFilename |-> FALSE, filename |-> <<>>] : n \in XrefNames }

\* a bitmap texture, before the host gives it a handle
BitmapValues ==
    { [name |-> n, hasFilename |-> TRUE, filename |-> f, handle |-> 0] :
          n \in BitmapNames, f \in InitFilenames }
    \cup { [name |-> n, hasFilename |-> FALSE, filename |-> <<>>, handle |-> 0] :
          n \in BitmapNames }

\* rt.getMAXFileObject(kind, name): the first object of that name, 0 for undefined
GetMAXFileObject(list, name) ==
    IF \E i \in 1..Len(list) : list[i].name = name
    THEN CHOOSE i \in 1..Len(list) :
            /\ list[i].name = name
            /\ \A j \in 1..(i - 1) : list[j].name # name
    ELSE 0

\* rt.maxOps.getNodeByHandle(handle): the bitmap of that handle, 0 for undefined
GetNodeByHandle(list, handle) ==
    IF \E i \in 1..Len(list) : list[i].handle = handle
    THEN CHOOSE i \in 1..Len(list) : list[i].handle = handle
    ELSE 0

(***************************************************************************)
(* The hook's log: one entry per logger call, by level.                    *)
(***************************************************************************)
Debug == "debug"
Warning == "warning"
Error == "error"

(***************************************************************************)
(* Material ownership of a bitmap.  A bitmap is identified by its handle;  *)
(* a slot holds a handle, or 0 for undefined; an entry of materialList is  *)
(* a material id, or 0 for undefined.                                      *)
(***************************************************************************)
HasAttr(obj, attr) == attr \in DOMAIN obj

\* the five slot tests of _bitmap_in_material
BitmapInSlotsNoReflection(bitmap, m) ==
    \E s \in SlotNames \ {"reflectionMap"} :
        HasAttr(materials[m].slots, s) /\ materials[m].slots[s] = bitmap

BitmapInSlots(bitmap, m) ==
    \/ HasAttr(materials[m].slots, "diffuseMap") /\ materials[m].slots["diffuseMap"] = bitmap
    \/ HasAttr(materials[m].slots, "bumpMap") /\ materials[m].slots["bumpMap"] = bitmap
    \/ HasAttr(materials[m].slots, "specularMap") /\ materials[m].slots["specularMap"] = bitmap
    \/ HasAttr(materials[m].slots, "opacityMap") /\ materials[m].slots["opacityMap"] = bitmap
    \/ HasAttr(materials[m].slots, "reflectionMap") /\ materials[m].slots["reflectionMap"] = bitmap

RECURSIVE BitmapInMaterial(_, _)
BitmapInMaterial(bitmap, m) ==
    \/ BitmapInSlots(bitmap, m)
    \/ /\ materials[m].hasList
       /\ \E i \in 1..Len(materials[m].materialList) :
             /\ materials[m].materialList[i] # 0
             /\ BitmapInMaterial(bitmap, materials[m].materialList[i])

\* the deepest nesting of _bitmap_in_material calls that a call on m makes
RECURSIVE CallDepth(_)
CallDepth(m) ==
    LET subs == IF materials[m].hasList
                THEN { materials[m].materialList[i] : i \in 1..Len(materials[m].materialList) } \ {0}
                ELSE {}
        depths == { CallDepth(x) : x \in subs }
    IN  IF subs = {} THEN 1
        ELSE 1 + CHOOSE d \in depths : \A e \in depths : e <= d

\* _get_material_name_for_bitmap; hostRaises: reading rt.sceneMaterials raises
GetMaterialNameForBitmap(bitmap, hostRaises) ==
    IF hostRaises THEN None
    ELSE IF \E i \in 1..Len(sceneMaterials) : BitmapInMaterial(bitmap, sceneMaterials[i])
         THEN LET i == CHOOSE k \in 1..Len(sceneMaterials) :
                           /\ BitmapInMaterial(bitmap, sceneMaterials[k])
                           /\ \A j \in 1..(k - 1) : ~BitmapInMaterial(bitmap, sceneMaterials[j])
                  mat == materials[sceneMaterials[i]]
              IN  IF mat.hasName THEN Str(mat.name) ELSE None
         ELSE None

(***************************************************************************)
(* scan_scene.  A scan of one kind processes the host's list in order; the *)
(* host lets it process `limit` elements (all of them, or those before the *)
(* call that raises).                                                      *)
(***************************************************************************)
XrefRecord(list, nodeType, k) ==
    [node_name |-> Str(list[k].name),
     node_type |-> nodeType,
     path |-> NormPath(Str(list[GetMAXFileObject(list, Str(list[k].name))].filename)),
     extra_data |-> [xref_index |-> k - 1]]

XrefKept(list, k) ==
    LET obj == list[GetMAXFileObject(list, Str(list[k].name))]
    IN  /\ obj.hasFilename
        /\ Truthy(Str(obj.filename))
        /\ Exists(Str(obj.filename))

RECURSIVE XrefRefs(_, _, _)
XrefRefs(list, nodeType, limit) ==
    IF limit = 0 THEN <<>>
    ELSE LET before == XrefRefs(list, nodeType, limit - 1)
         IN  IF XrefKept(list, limit)
             THEN Append(before, XrefRecord(list, nodeType, limit))
             ELSE before

\* name or default, for a name that is a str or None
OrDefault(name, default) == IF name = None \/ name = "" THEN default ELSE name

BitmapRecord(list, k, matRaises) ==
    LET material_name == GetMaterialNameForBitmap(list[k].handle, matRaises)
    IN  [node_name |-> OrDefault(material_name, "unknown") \o "_bitmap_"
                          \o OrDefault(list[k].name, "unnamed"),
         node_type |-> "bitmap_texture",
         path |-> NormPath(Str(list[k].filename)),
         extra_data |-> [bitmap_handle |-> list[k].handle, material_name |-> material_name]]

BitmapKept(list, k) ==
    /\ list[k].hasFilename
    /\ Truthy(list[k].filename)
    /\ Truthy(Str(list[k].filename))
    /\ Exists(Str(list[k].filename))

RECURSIVE BitmapRefs(_, _, _)
BitmapRefs(list, limit, matRaises) ==
    IF limit = 0 THEN <<>>
    ELSE LET before == BitmapRefs(list, limit - 1, matRaises)
         IN  IF BitmapKept(list, limit)
             THEN Append(before, BitmapRecord(list, limit, matRaises))
             ELSE before

\* A failure of a scan: {} when no host call raises, {k} when the host raises
\* after k elements of the list were processed.
NoFail == {}
Limit(list, f) == IF f = NoFail THEN Len(list) ELSE CHOOSE k \in f : TRUE
ScanFails(list) == {NoFail} \cup { {k} : k \in 0..(IF Len(list) = 0 THEN 0 ELSE Len(list) - 1) }

\* what the except clause of a _scan_* method leaves of the records collected
KeptOnErrorNothing(refs) == <<>>
KeptOnError(refs) == refs

\* _scan_xref_objects, _scan_xref_scenes, _scan_material_bitmaps: [refs, log]
ScanXrefObjects(list, f) ==
    IF f = NoFail THEN [refs |-> XrefRefs(list, "xref_object", Len(list)), log |-> <<>>]
    ELSE [refs |-> KeptOnError(XrefRefs(list, "xref_object", Limit(list, f))),
          log |-> <<Warning>>]

ScanXrefScenes(list, f) ==
    IF f = NoFail THEN [refs |-> XrefRefs(list, "xref_scene", Len(list)), log |-> <<>>]
    ELSE [refs |-> KeptOnError(XrefRefs(list, "xref_scene", Limit(list, f))),
          log |-> <<Warning>>]

\* each _get_material_name_for_bitmap call that fails logs at debug level
ScanMaterialBitmaps(list, f, matRaises) ==
    LET refs == BitmapRefs(list, Limit(list, f), matRaises)
        debug == [i \in 1..(IF matRaises THEN Len(refs) ELSE 0) |-> Debug]
    IN  IF f = NoFail THEN [refs |-> refs, log |-> debug]
        ELSE [refs |-> KeptOnError(refs), log |-> debug \o <<Warning>>]

\* refs.extend three times, in this order
ExtendAllScenesFirst(objs, scenes, bmps) == scenes \o objs \o bmps
ExtendAll(objs, scenes, bmps) == objs \o scenes \o bmps

\* scan_scene() on the host lists objs, scenes, bmps
ScanOn(objs, scenes, bmps, fo, fs, fb, matRaises) ==
    LET o == ScanXrefObjects(objs, fo)
        s == ScanXrefScenes(scenes, fs)
        b == ScanMaterialBitmaps(bmps, fb, matRaises)
    IN  [refs |-> ExtendAll(o.refs, s.refs, b.refs),
         log |-> o.log \o s.log \o b.log,
         raised |-> FALSE]

ScanScene(fo, fs, fb, matRaises) ==
    ScanOn(xrefObjects, xrefScenes, bitmaps, fo, fs, fb, matRaises)

(***************************************************************************)
(* update.  The host calls made on an object that was found are recorded   *)
(* in order; `fail` names the host call that raises ("none" for no         *)
(* failure).  A call that raises has no effect on the host.                *)
(***************************************************************************)
WriteCall(kind, idx, path) ==
    [call |-> "write", kind |-> kind, index |-> idx, value |-> path, raised |-> FALSE]
ReloadCall(kind, idx) ==
    [call |-> "reload", kind |-> kind, index |-> idx, value |-> <<>>, raised |-> FALSE]

\* the host calls on a found object, in program order: obj.filename = path, then
\* the reload (reloadMAXFile resolves node_name to the same object; bitmap.reload())
HostCallsReloadFirst(kind, idx, path) == <<ReloadCall(kind, idx), WriteCall(kind, idx, path)>>
HostCalls(kind, idx, path) == <<WriteCall(kind, idx, path), ReloadCall(kind, idx)>>

\* the calls executed when `fail` raises: those up to the failing one, which is marked
Executed(calls, fail) ==
    LET n == IF \E i \in 1..Len(calls) : calls[i].call = fail
             THEN CHOOSE i \in 1..Len(calls) : calls[i].call = fail
             ELSE Len(calls)
    IN  [i \in 1..n |-> [calls[i] EXCEPT !.raised = (calls[i].call = fail)]]

Written(done) == \E i \in 1..Len(done) : done[i].call = "write" /\ ~done[i].raised

\* the objects an assignment obj.filename = path reaches
AssignAllOfName(list, idx, path) ==
    [i \in 1..Len(list) |->
        IF list[i].name = list[idx].name
        THEN [list[i] EXCEPT !.filename = path, !.hasFilename = TRUE]
        ELSE list[i]]
Assign(list, idx, path) ==
    [list EXCEPT ![idx].filename = path, ![idx].hasFilename = TRUE]

\* the object `if xref_obj:` accepts (0: none), given the index the lookup returned
FoundOrFirst(list, looked) == IF looked # 0 \/ Len(list) = 0 THEN looked ELSE 1
Found(list, looked) == looked

\* try/except Exception of a helper: what reaches the caller of update
PropagatedUncaught(hostRaised) == hostRaised
Propagated(hostRaised) == FALSE

\* the body of _update_xref_object / _update_xref_scene on the host list of its kind
UpdateXref(list, kind, node_name, path, extra_data, fail) ==
    LET looked == GetMAXFileObject(list, node_name)
        idx == Found(list, looked)
        done == Executed(HostCalls(kind, idx, path), fail)
    IN  IF fail = "lookup"
        THEN [list |-> list, calls |-> <<>>, log |-> <<Debug, Error>>, hostRaised |-> TRUE]
        ELSE IF idx = 0
        THEN [list |-> list, calls |-> <<>>, log |-> <<Debug, Error>>, hostRaised |-> FALSE]
        ELSE [list |-> IF Written(done) THEN Assign(list, idx, path) ELSE list,
              calls |-> done,
              log |-> <<Debug>> \o (IF fail = "none" THEN <<Debug>> ELSE <<Error>>),
              hostRaised |-> fail # "none"]

\* `if bitmap_handle:` on extra_data.get("bitmap_handle")
HandleGiven(extra_data) ==
    HasAttr(extra_data, "bitmap_handle") /\ extra_data.bitmap_handle # 0

\* the body of _update_bitmap_texture
UpdateBitmap(list, path, extra_data, fail) ==
    IF ~HandleGiven(extra_data)
    THEN [list |-> list, calls |-> <<>>, log |-> <<Debug, Error>>, hostRaised |-> FALSE]
    ELSE IF fail = "lookup"
    THEN [list |-> list, calls |-> <<>>, log |-> <<Debug, Error>>, hostRaised |-> TRUE]
    ELSE LET idx == GetNodeByHandle(list, extra_data.bitmap_handle)
             done == Executed(HostCalls("bitmap_texture", idx, path), fail)
         IN  IF idx = 0
             THEN [list |-> list, calls |-> <<>>, log |-> <<Debug, Error>>, hostRaised |-> FALSE]
             ELSE [list |-> IF Written(done) THEN Assign(list, idx, path) ELSE list,
                   calls |-> done,
                   log |-> <<Debug>> \o (IF fail = "none" THEN <<Debug>> ELSE <<Error>>),
                   hostRaised |-> fail # "none"]

\* path.replace("\\", "/")
UpdatePath(path) == Replace(path, Sep, AltSep)

\* update(item) on the host lists objs, scenes, bmps
UpdateOn(objs, scenes, bmps, item, fail) ==
    LET node_name == item.node_name
        node_type == item.node_type
        path == UpdatePath(item.path)
        extra_data == item.extra_data
        same == [objs |-> objs, scenes |-> scenes, bmps |-> bmps]
    IN  IF node_type = "xref_object"
        THEN LET r == UpdateXref(objs, node_type, node_name, path, extra_data, fail)
             IN  [same EXCEPT !.objs = r.list] @@
                 [calls |-> r.calls, log |-> r.log, hostRaised |-> r.hostRaised,
                  raised |-> Propagated(r.hostRaised)]
        ELSE IF node_type = "xref_scene"
        THEN LET r == UpdateXref(scenes, node_type, node_name, path, extra_data, fail)
             IN  [same EXCEPT !.scenes = r.list] @@
                 [calls |-> r.calls, log |-> r.log, hostRaised |-> r.hostRaised,
                  raised |-> Propagated(r.hostRaised)]
        ELSE IF node_type = "bitmap_texture"
        THEN LET r == UpdateBitmap(bmps, path, extra_data, fail)
             IN  [same EXCEPT !.bmps = r.list] @@
                 [calls |-> r.calls, log |-> r.log, hostRaised |-> r.hostRaised,
                  raised |-> Propagated(r.hostRaised)]
        ELSE same @@ [calls |-> <<>>, log |-> <<Warning>>, hostRaised |-> FALSE,
                      raised |-> FALSE]

UpdateOutcome(item, fail) == UpdateOn(xrefObjects, xrefScenes, bitmaps, item, fail)

(***************************************************************************)
(* The record of the last hook call.                                       *)
(***************************************************************************)
NoItem == [node_name |-> "", node_type |-> "", path |-> <<>>, extra_data |-> <<>>]
NoScanFail == [objects |-> NoFail, scenes |-> NoFail, bitmaps |-> NoFail, materials |-> FALSE]

Call(op, item, fail, scanFail, calls, log, raised, ret) ==
    [op |-> op, item |-> item, fail |-> fail, scanFail |-> scanFail,
     calls |-> calls, log |-> log, raised |-> raised, ret |-> ret]

NoCall == Call("none", NoItem, "none", NoScanFail, <<>>, <<>>, FALSE, <<>>)

(***************************************************************************)
(* Actions of the hook.                                                    *)
(***************************************************************************)
\* scan_scene(), with the host failures fo, fs, fb (one per kind) and fm
Scan(fo, fs, fb, fm) ==
    \E r \in {ScanScene(fo, fs, fb, fm)} :
        /\ fm => BitmapRefs(bitmaps, Limit(bitmaps, fb), FALSE) # <<>>
        /\ last' = Call("scan", NoItem, "none",
                        [objects |-> fo, scenes |-> fs, bitmaps |-> fb, materials |-> fm],
                        <<>>, r.log, r.raised, r.refs)
        /\ UNCHANGED <<sceneVars, cbVars>>

\* the items the toolkit builds from the records of the scan it has just made
ItemsFromScan ==
    IF last.op = "scan"
    THEN { [last.ret[k] EXCEPT !.path = p] : k \in 1..Len(last.ret), p \in NewPaths }
    ELSE {}

\* items that do not come from a scan
OtherItems ==
    { [node_name |-> n, node_type |-> t, path |-> <<"x">>, extra_data |-> <<>>] :
          n \in XrefNames, t \in {"xref_object", "xref_scene"} }
    \cup { [node_name |-> "texture", node_type |-> "bitmap_texture", path |-> <<"x">>,
            extra_data |-> e] :
          e \in {<<>>} \cup { [bitmap_handle |-> h, material_name |-> None] : h \in {0, 1, 2} } }
    \cup { [node_name |-> "A", node_type |-> "reference", path |-> <<"x">>, extra_data |-> <<>>] }

UpdateFails == {"none", "lookup", "write", "reload"}

\* update(item), where the host call `fail` raises
Update(item, fail) ==
    \E r \in {UpdateOutcome(item, fail)} :
        /\ fail = "none" \/ r.hostRaised
        /\ xrefObjects' = r.objs
        /\ xrefScenes' = r.scenes
        /\ bitmaps' = r.bmps
        /\ last' = Call("update", item, fail, NoScanFail, r.calls, r.log, r.raised, <<>>)
        /\ UNCHANGED <<sceneMaterials, materials, cbVars>>

\* _get_material_name_for_bitmap(bitmap) for the bitmap of handle h
MaterialName(h, hostRaises) ==
    /\ last' = Call("material_name",
                    [NoItem EXCEPT !.extra_data = [bitmap_handle |-> h]],
                    "none", [NoScanFail EXCEPT !.materials = hostRaises],
                    <<>>, IF hostRaises THEN <<Debug>> ELSE <<>>, FALSE,
                    GetMaterialNameForBitmap(h, hostRaises))
    /\ UNCHANGED <<sceneVars, cbVars>>

\* what register_scene_change_callback hands to the host's notification system
HostRegistration(cb) == {}

Callbacks == {"cb1", "cb2"}

\* register_scene_change_callback(cb)
Register(cb) ==
    /\ scene_change_callback' = cb
    /\ hostCallbacks' = hostCallbacks \cup HostRegistration(cb)
    /\ last' = Call("register", NoItem, "none", NoScanFail, <<>>, <<Debug>>, FALSE, <<>>)
    /\ UNCHANGED <<sceneVars, pendingChange, cbExecuted>>

\* unregister_scene_change_callback()
Unregister ==
    /\ scene_change_callback' =
           IF scene_change_callback # "unset" THEN None ELSE scene_change_callback
    /\ last' = Call("unregister", NoItem, "none", NoScanFail, <<>>, <<Debug>>, FALSE, <<>>)
    /\ UNCHANGED <<sceneVars, hostCallbacks, pendingChange, cbExecuted>>

\* the host's scene change event: the host runs the callbacks it was handed
SceneChange ==
    /\ pendingChange' = (pendingChange \/ scene_change_callback \in Callbacks)
    /\ cbExecuted' = (cbExecuted \/ hostCallbacks # {})
    /\ last' = NoCall
    /\ UNCHANGED <<sceneVars, scene_change_callback, hostCallbacks>>

(***************************************************************************)
(* Initial states.                                                         *)
(***************************************************************************)
\* the host numbers the bitmaps consecutively; handle 1 belongs to no bitmap
WithHandles(list) == [i \in 1..Len(list) |-> [list[i] EXCEPT !.handle = i + 1]]

\* object names are interchangeable: the first object of a kind is named "A"
FirstNamed(list) == IF Len(list) = 0 THEN TRUE ELSE list[1].name = "A"

\* __init__ stores the runtime only; no callback attribute exists yet
InitHook ==
    /\ scene_change_callback = "unset"
    /\ hostCallbacks = {}
    /\ pendingChange = FALSE
    /\ cbExecuted = FALSE
    /\ last = NoCall

\* a material without any of the five slot attributes
NoSlots == <<>>

\* one material "M" that holds the bitmap of handle 2 as its diffuse map
InitOneMaterial ==
    /\ sceneMaterials = <<1>>
    /\ materials = <<[name |-> "M", hasName |-> TRUE,
                      slots |-> [s \in SlotNames |-> IF s = "diffuseMap" THEN 2 ELSE 0],
                      hasList |-> FALSE, materialList |-> <<>>]>>

Init ==
    /\ \E no, ns, nb \in 0..MaxObjects :
          /\ no + ns + nb <= MaxObjects
          /\ xrefObjects \in { l \in [1..no -> XrefValues] : FirstNamed(l) }
          /\ xrefScenes \in { l \in [1..ns -> XrefValues] : FirstNamed(l) }
          /\ bitmaps \in { WithHandles(l) : l \in [1..nb -> BitmapValues] }
    /\ InitOneMaterial
    /\ InitHook

Next ==
    \/ \E fo \in ScanFails(xrefObjects), fs \in ScanFails(xrefScenes),
          fb \in ScanFails(bitmaps), fm \in BOOLEAN : Scan(fo, fs, fb, fm)
    \/ \E item \in ItemsFromScan \cup OtherItems, fail \in UpdateFails : Update(item, fail)

Spec == Init /\ [][Next]_vars

(***************************************************************************)
(* Material graphs: acyclic, every materialList entry names a material of  *)
(* a higher id (or is undefined); the bitmap of handle 1 sits in slot s,   *)
(* the bitmap of handle 2 in the diffuse slot of the second material.      *)
(* Only the first material may list an undefined sub-material.             *)
(***************************************************************************)
SlotConfigs(i, s) ==
    { NoSlots,
      [t \in SlotNames |-> IF t = s THEN 1 ELSE 0] }
    \cup (IF i = 2 THEN { [t \in SlotNames |-> IF t = "diffuseMap" THEN 2 ELSE 0] } ELSE {})

RECURSIVE SortedSeq(_)
SortedSeq(T) ==
    IF T = {} THEN <<>>
    ELSE LET m == CHOOSE x \in T : \A y \in T : x <= y
         IN  <<m>> \o SortedSeq(T \ {m})

MaterialLists(i) ==
    { SortedSeq(T) : T \in SUBSET ((i + 1)..MaxMaterials) }
    \cup (IF i = 1 THEN { <<0>> \o SortedSeq((i + 1)..MaxMaterials) } ELSE {})

\* material 1 may lack a name attribute
MaterialValues(i, s) ==
    { [name |-> "M" \o ToString(i), hasName |-> n, slots |-> c,
       hasList |-> TRUE, materialList |-> l] :
          c \in SlotConfigs(i, s), l \in MaterialLists(i), n \in {TRUE, i # 1} }
    \cup { [name |-> "M" \o ToString(i), hasName |-> n, slots |-> c,
            hasList |-> FALSE, materialList |-> <<>>] :
          c \in SlotConfigs(i, s), n \in {TRUE, i # 1} }

RECURSIVE MaterialGraphs(_, _)
MaterialGraphs(i, s) ==
    IF i > MaxMaterials THEN { <<>> }
    ELSE { <<m>> \o g : m \in MaterialValues(i, s), g \in MaterialGraphs(i + 1, s) }

InitMat ==
    /\ xrefObjects = <<>>
    /\ xrefScenes = <<>>
    /\ bitmaps = << [name |-> "T", hasFilename |-> TRUE, filename |-> <<"a">>, handle |-> 1],
                    [name |-> "", hasFilename |-> TRUE, filename |-> <<"a">>, handle |-> 2] >>
    /\ \E s \in SlotNames : materials \in MaterialGraphs(1, s)
    /\ sceneMaterials \in { <<1>>, <<2, 1>> }
    /\ InitHook

NextMat == \E h \in {1, 2}, hostRaises \in BOOLEAN : MaterialName(h, hostRaises)

SpecMat == InitMat /\ [][NextMat]_vars

NextCb ==
    \/ \E cb \in Callbacks : Register(cb)
    \/ Unregister
    \/ SceneChange

\* the host delivers its events and the toolkit keeps calling the hook
SpecCb == Init /\ [][NextCb]_vars /\ WF_vars(NextCb)

(***************************************************************************)
(* Properties.                                                             *)
(***************************************************************************)
KnownTypes == {"xref_object", "xref_scene", "bitmap_texture"}
RecordKeys == {"node_name", "node_type", "path", "extra_data"}

KindRank(t) ==
    CASE t = "xref_object" -> 1
      [] t = "xref_scene" -> 2
      [] t = "bitmap_texture" -> 3
      [] OTHER -> 0

HostList(t) ==
    CASE t = "xref_object" -> xrefObjects
      [] t = "xref_scene" -> xrefScenes
      [] t = "bitmap_texture" -> bitmaps
      [] OTHER -> <<>>

\* the position, in the host's enumeration of its kind, of the object a record is about
HostPosition(r) ==
    IF r.node_type = "bitmap_texture"
    THEN GetNodeByHandle(bitmaps, r.extra_data.bitmap_handle)
    ELSE r.extra_data.xref_index + 1

OfKind(refs, t) == SelectSeq(refs, LAMBDA r : r.node_type = t)

\* C1: every record scan_scene returns has exactly the keys node_name, node_type,
\* path and extra_data and a node_type among the three kinds; the records are
\* ordered by kind (xref_object, xref_scene, bitmap_texture) and, within a kind,
\* by the host's enumeration order.
C1_ScanRecordsShapeAndOrder ==
    last.op = "scan" =>
        /\ \A i \in 1..Len(last.ret) :
              /\ DOMAIN last.ret[i] = RecordKeys
              /\ last.ret[i].node_type \in KnownTypes
        /\ \A i, j \in 1..Len(last.ret) :
              i < j =>
                 \/ KindRank(last.ret[i].node_type) < KindRank(last.ret[j].node_type)
                 \/ /\ last.ret[i].node_type = last.ret[j].node_type
                    /\ HostPosition(last.ret[i]) < HostPosition(last.ret[j])

\* a scan returned an XRef scene record after an XRef object record
C1_Witness ==
    /\ last.op = "scan"
    /\ Len(last.ret) = 2
    /\ last.ret[1].node_type = "xref_object"
    /\ last.ret[2].node_type = "xref_scene"

\* what a scan reports of an object, by the claim: its kind, its position in the
\* host's list and the normalized filename of that very object
HasFile(obj) == obj.hasFilename /\ obj.filename # <<>> /\ Exists(obj.filename)

RECURSIVE OwnFiles(_, _, _)
OwnFiles(list, t, n) ==
    IF n = 0 THEN <<>>
    ELSE IF HasFile(list[n])
         THEN Append(OwnFiles(list, t, n - 1), <<t, n, NormPath(list[n].filename)>>)
         ELSE OwnFiles(list, t, n - 1)

Reported(refs) == [i \in 1..Len(refs) |-> <<refs[i].node_type, HostPosition(refs[i]), refs[i].path>>]

\* C2: when no host call raises, scan_scene returns exactly one record for each
\* XRef object, XRef scene and bitmap texture whose own filename is non-empty
\* and exists on disk, with that object's normalized filename as path and, for
\* XRefs, its position in the host's name list as xref_index; no other record.
C2_ScanReportsEachExistingFile ==
    (last.op = "scan" /\ last.scanFail = NoScanFail) =>
        Reported(last.ret) =
            OwnFiles(xrefObjects, "xref_object", Len(xrefObjects))
            \o OwnFiles(xrefScenes, "xref_scene", Len(xrefScenes))
            \o OwnFiles(bitmaps, "bitmap_texture", Len(bitmaps))

\* the host object update(item) resolves its item to (0: none), by the claim
Target(item) ==
    IF item.node_type \in {"xref_object", "xref_scene"}
    THEN GetMAXFileObject(HostList(item.node_type), item.node_name)
    ELSE IF item.node_type = "bitmap_texture" /\ HasAttr(item.extra_data, "bitmap_handle")
    THEN GetNodeByHandle(bitmaps, item.extra_data.bitmap_handle)
    ELSE 0

\* C3: in update, every reload request is directly preceded by the write of the
\* item's path (backslashes replaced) to the filename of the same object, which
\* is the object the item resolves to; when the item resolves to no object no
\* host call is made; when it resolves and nothing raises, the write and the
\* reload both happen and the object holds the new filename.
C3_WriteBeforeReload ==
    last.op = "update" =>
        /\ \A j \in 1..Len(last.calls) :
              last.calls[j].call = "reload" =>
                 /\ j > 1
                 /\ last.calls[j - 1].call = "write"
                 /\ ~last.calls[j - 1].raised
                 /\ last.calls[j - 1].kind = last.calls[j].kind
                 /\ last.calls[j - 1].index = last.calls[j].index
                 /\ last.calls[j - 1].value = Replace(last.item.path, Sep, AltSep)
                 /\ last.calls[j].kind = last.item.node_type
                 /\ last.calls[j].index = Target(last.item)
        /\ Target(last.item) = 0 => last.calls = <<>>
        /\ (Target(last.item) # 0 /\ last.fail = "none") =>
              /\ Len(last.calls) = 2
              /\ last.calls[2].call = "reload"
              /\ HostList(last.item.node_type)[Target(last.item)].filename
                    = Replace(last.item.path, Sep, AltSep)

\* an update wrote a path that held a backslash and then reloaded the object
C3_Witness ==
    /\ last.op = "update"
    /\ last.fail = "none"
    /\ Len(last.calls) = 2
    /\ last.calls[2].call = "reload"
    /\ last.item.path = <<"d", Sep, "b">>

\* C4: update never raises to its caller: whatever host call raises (lookup,
\* filename write or reload), update returns normally and has logged an error.
C4_UpdateNeverRaises ==
    last.op = "update" =>
        /\ ~last.raised
        /\ last.fail # "none" => last.log[Len(last.log)] = Error

\* an update during which the host's reload raised
C4_Witness ==
    /\ last.op = "update"
    /\ last.fail = "reload"
    /\ Len(last.calls) = 2
    /\ last.calls[2].raised

ScanFailOf(t) ==
    CASE t = "xref_object" -> last.scanFail.objects
      [] t = "xref_scene" -> last.scanFail.scenes
      [] t = "bitmap_texture" -> last.scanFail.bitmaps

Warnings(log) == Len(SelectSeq(log, LAMBDA l : l = Warning))

\* C5: a host failure while one kind is scanned does not abort scan_scene: it
\* returns a list; it logs one warning per failing kind; of a failing kind it
\* returns the records of the objects processed before the exception; of every
\* other kind it returns what a scan without failures returns.
C5_ScanSurvivesHostFailure ==
    last.op = "scan" =>
        LET full == ScanScene(NoFail, NoFail, NoFail, last.scanFail.materials).refs
        IN  /\ ~last.raised
            /\ Warnings(last.log) = Cardinality({ t \in KnownTypes : ScanFailOf(t) # NoFail })
            /\ \A t \in KnownTypes :
                  IF ScanFailOf(t) = NoFail
                  THEN OfKind(last.ret, t) = OfKind(full, t)
                  ELSE OfKind(last.ret, t) =
                          SelectSeq(OfKind(full, t),
                                    LAMBDA r : \A k \in ScanFailOf(t) : HostPosition(r) <= k)

\* the host raised at the second XRef object: the record of the first is returned
C5_Witness ==
    /\ last.op = "scan"
    /\ last.scanFail.objects = {1}
    /\ Len(xrefObjects) = 2
    /\ Len(last.ret) = 1
    /\ last.ret[1].node_type = "xref_object"

\* C6: once a callback is registered, every scene change that happens while it
\* is registered is eventually followed by an execution of the callback.
C6_CallbackRunsOnSceneChange == pendingChange ~> cbExecuted

\* update(item) cannot resolve its target: unknown node_type, no XRef of that
\* name, no or falsy bitmap_handle, or a handle that no bitmap has
Unresolved(item) ==
    \/ item.node_type \notin KnownTypes
    \/ /\ item.node_type \in {"xref_object", "xref_scene"}
       /\ \A i \in 1..Len(HostList(item.node_type)) :
             HostList(item.node_type)[i].name # item.node_name
    \/ /\ item.node_type = "bitmap_texture"
       /\ \/ ~HasAttr(item.extra_data, "bitmap_handle")
          \/ item.extra_data.bitmap_handle = 0
          \/ \A i \in 1..Len(bitmaps) : bitmaps[i].handle # item.extra_data.bitmap_handle

\* C7: an update that cannot resolve its target leaves every host object as it
\* was, makes no filename write and no reload request, and ends by logging a
\* warning (unknown node_type) or an error.
C7_UnresolvedUpdateChangesNothing ==
    [][(last'.op = "update" /\ Unresolved(last'.item)) =>
          /\ UNCHANGED sceneVars
          /\ last'.calls = <<>>
          /\ last'.log[Len(last'.log)] =
                (IF last'.item.node_type \in KnownTypes THEN Error ELSE Warning)]_vars

\* an update whose bitmap_handle is 0 has logged its error, in a scene with a bitmap
C7_Witness ==
    /\ last.op = "update"
    /\ last.item.node_type = "bitmap_texture"
    /\ HasAttr(last.item.extra_data, "bitmap_handle")
    /\ last.item.extra_data.bitmap_handle = 0
    /\ bitmaps # <<>>
    /\ last.log = <<Debug, Error>>

\* C8: for every record r of a scan without failures and every new path P that
\* exists on disk, update(r with path P) without failures followed by a scan
\* gives, at the same position, the record r with path P, and leaves every
\* other record as it was.
C8_ScanUpdateRoundTrip ==
    (last.op = "scan" /\ last.scanFail = NoScanFail) =>
        \A k \in 1..Len(last.ret) : \A P \in { p \in NewPaths : Exists(p) } :
            LET u == UpdateOutcome([last.ret[k] EXCEPT !.path = P], "none")
                again == ScanOn(u.objs, u.scenes, u.bmps, NoFail, NoFail, NoFail, FALSE).refs
            IN  /\ Len(again) = Len(last.ret)
                /\ again[k] = [last.ret[k] EXCEPT !.path = P]
                /\ \A j \in 1..Len(last.ret) : j # k => again[j] = last.ret[j]

\* the materials reachable from m through materialList, m included
RECURSIVE ReachableIn(_, _)
ReachableIn(S, n) ==
    IF n = 0 THEN S
    ELSE ReachableIn(
            S \cup { x \in DOMAIN materials :
                        \E p \in S : /\ materials[p].hasList
                                     /\ \E i \in 1..Len(materials[p].materialList) :
                                           materials[p].materialList[i] = x },
            n - 1)
Reachable(m) == ReachableIn({m}, Len(materials))

Holds(bitmap, m) ==
    \E s \in SlotNames : HasAttr(materials[m].slots, s) /\ materials[m].slots[s] = bitmap

Owns(bitmap, m) == \E x \in Reachable(m) : Holds(bitmap, x)

\* C9: _bitmap_in_material(bitmap, material) is True exactly when one of the five
\* slots of the material, or of a material reachable from it through
\* materialList, holds the bitmap; on an acyclic graph its calls nest no deeper
\* than there are materials; _get_material_name_for_bitmap returns the name of
\* the first material of sceneMaterials for which it is True, None when there
\* is none (or when that material has no name, or reading sceneMaterials raises).
C9_MaterialOwnership ==
    /\ \A m \in DOMAIN materials :
          /\ CallDepth(m) <= Len(materials)
          /\ \A bitmap \in {1, 2} : BitmapInMaterial(bitmap, m) <=> Owns(bitmap, m)
    /\ last.op = "material_name" =>
          LET bitmap == last.item.extra_data.bitmap_handle
              owners == { i \in 1..Len(sceneMaterials) : Owns(bitmap, sceneMaterials[i]) }
          IN  IF last.scanFail.materials \/ owners = {}
              THEN last.ret = None
              ELSE \E i \in owners :
                      /\ \A j \in owners : i <= j
                      /\ last.ret = IF materials[sceneMaterials[i]].hasName
                                    THEN materials[sceneMaterials[i]].name
                                    ELSE None

\* the name returned is that of a material that holds the bitmap two levels down
C9_Witness ==
    /\ last.op = "material_name"
    /\ last.item.extra_data.bitmap_handle = 1
    /\ last.ret = "M1"
    /\ sceneMaterials = <<1>>
    /\ \A m \in DOMAIN materials : Holds(1, m) <=> m = 3
    /\ materials[1].hasList
    /\ materials[1].materialList[1] = 0

Differing(old, new) == { i \in 1..Len(old) : old[i] # new[i] }

\* C10: scan_scene changes no host object and makes no write or reload request,
\* and a scan that follows a scan under the same host failures returns the same
\* list; update changes at most one host object, of the kind its item names,
\* and only that object's filename, also when the reload raises.
C10_FrameOfScanAndUpdate ==
    [][/\ last'.op = "scan" =>
             /\ UNCHANGED sceneVars
             /\ last'.calls = <<>>
             /\ (last.op = "scan" /\ last.scanFail = last'.scanFail) => last'.ret = last.ret
       /\ last'.op = "update" =>
             /\ Len(xrefObjects') = Len(xrefObjects)
             /\ Len(xrefScenes') = Len(xrefScenes)
             /\ Len(bitmaps') = Len(bitmaps)
             /\ Cardinality(Differing(xrefObjects, xrefObjects'))
                  + Cardinality(Differing(xrefScenes, xrefScenes'))
                  + Cardinality(Differing(bitmaps, bitmaps')) <= 1
             /\ Differing(xrefObjects, xrefObjects') # {} => last'.item.node_type = "xref_object"
             /\ Differing(xrefScenes, xrefScenes') # {} => last'.item.node_type = "xref_scene"
             /\ Differing(bitmaps, bitmaps') # {} => last'.item.node_type = "bitmap_texture"
             /\ \A i \in 1..Len(xrefObjects) : xrefObjects'[i].name = xrefObjects[i].name
             /\ \A i \in 1..Len(xrefScenes) : xrefScenes'[i].name = xrefScenes[i].name
             /\ \A i \in 1..Len(bitmaps) :
                   /\ bitmaps'[i].name = bitmaps[i].name
                   /\ bitmaps'[i].handle = bitmaps[i].handle
             /\ UNCHANGED <<sceneMaterials, materials>>]_vars

\* an update wrote the filename of one of two XRef objects of the same name and
\* its reload raised
C10_Witness ==
    /\ last.op = "update"
    /\ last.fail = "reload"
    /\ last.item.node_type = "xref_object"
    /\ Len(xrefObjects) = 2
    /\ xrefObjects[1].name = xrefObjects[2].name
    /\ xrefObjects[1].filename = <<"d", AltSep, "b">>
    /\ xrefObjects[2].filename # <<"d", AltSep, "b">>

====
